---- MODULE Spec2Model ----
(***************************************************************************)
(* A model of libbb/executable.c: the executable probe, the PATH resolver  *)
(* find_executable with its resumable cursor, the one-shot query           *)
(* executable_exists, and the exec dispatcher BB_EXECVP.                   *)
(*                                                                         *)
(* Strings are sequences of one-character strings.  A pointer into the     *)
(* search path is the index of the character it points at; the index       *)
(* Len(PATH)+1 is the terminating NUL and NULL is the null pointer.        *)
(***************************************************************************)
EXTENDS Integers, Sequences, FiniteSets, Bags, TLC

VARIABLES
    PATH,       \* the search path string ($PATH), or NoStr when it is unset
    fs,         \* the filesystem: what access() and stat() answer for each path
    name,       \* the name looked up
    PATHp,      \* the caller's cursor, the variable find_executable's PATHp points at
    result,     \* the caller's variable receiving find_executable's return value
    pc,         \* position of the process in the code
    caller,     \* who called find_executable: "user" or "exists"
    p,          \* find_executable: the scan pointer (line 38, 65)
    end,        \* find_executable: end of the current component (line 43)
    cand,       \* find_executable: the candidate string built (line 47, 51)
    path,       \* executable_exists: its local cursor (line 75)
    ret,        \* executable_exists: its local result (line 76)
    exists_ret, \* the value executable_exists returned, 1 or 0; -1 before it returns
    heap,       \* bag of the live candidate strings (xasprintf / xstrdup blocks)
    probed,     \* history: <<position, candidate>> of every probe of the call in progress or last made
    res,        \* history: outcome of the caller's last call: "none", "found", "notfound"
    entry,      \* history: the cursor value the last call was entered with
    allocd,     \* history: the candidates the call in progress or last made allocated and did not free
    prevHit,    \* history: the component start matched by the call before, 0 if it found none
    chain,      \* history: positions probed by the caller's calls since its last call that followed no match
    hitPos,     \* history: start of the component of the caller's most recent match
    ENABLE_FEATURE_PREFER_APPLETS,  \* build configuration (line 84)
    ENABLE_FEATURE_FORCE_APPLETS,   \* build configuration (line 92)
    ENABLE_FEATURE_FORCE_NOEXEC,    \* build configuration (line 87)
    is_noexec,  \* the registry's no-exec flag of each applet
    file,       \* BB_EXECVP: the requested file name, "" before the first dispatch
    argv,       \* BB_EXECVP: the argument vector
    applet,     \* BB_EXECVP: the registry's answer (line 85), negative for no match
    errno,      \* the OS error indicator
    bx_ret,     \* the value BB_EXECVP returned, 0 while it has not returned
    execlog,    \* history: the execvp calls of the dispatch, in order, with their outcome
    ran,        \* history: the arguments the in-process applet runner was given, <<>> if not run
    results,    \* history: <<position, candidate>> of every match returned to the caller, in order
    nalloc,     \* history: the number of candidates the call in progress or last made allocated
    bx_caller,  \* who entered BB_EXECVP: "user", "execvpe" or "or_die"
    environ,    \* the process environment other than PATH: the value of each key, NoStr if unset
    envp,       \* BB_EXECVPE: the caller-supplied list, without its NULL sentinel
    envi,       \* BB_EXECVPE: index of the entry envp points at (line 107)
    xfunc_error_retval, \* the exit status a fatal error ends the process with (line 117)
    exit_status,        \* the status the process ended with, -1 while it has not
    probe_name, \* file_is_executable called on its own: its argument
    probe_ret   \* file_is_executable called on its own: what it returned, -1 before

resolverVars == <<PATH, fs, name, PATHp, result, caller, p, end, cand, path, ret,
                  exists_ret, heap, probed, res, entry, allocd, prevHit, chain, hitPos,
                  results, nalloc>>

\* the resolver's state other than PATH
resolverRest == <<fs, name, PATHp, result, caller, p, end, cand, path, ret,
                  exists_ret, heap, probed, res, entry, allocd, prevHit, chain, hitPos,
                  results, nalloc>>

configVars == <<ENABLE_FEATURE_PREFER_APPLETS, ENABLE_FEATURE_FORCE_APPLETS,
                ENABLE_FEATURE_FORCE_NOEXEC, is_noexec>>

execVars == <<file, argv, applet, errno, bx_ret, execlog, ran>>

envVars == <<environ, envp, envi>>

dieVars == <<xfunc_error_retval, exit_status>>

probeVars == <<probe_name, probe_ret>>

vars == <<pc, resolverVars, configVars, execVars, bx_caller, envVars, dieVars, probeVars>>

----------------------------------------------------------------------------
(* Bounds and input domains *)

MaxPathLen == 4

MaxEnvLen == 2

NULL == 0

NoStr == <<"NULL">>

PathChars == {"a", "b", ":"}

Paths == UNION {[1..n -> PathChars] : n \in 0..MaxPathLen}

Names == {<<"t">>}

\* The paths whose filesystem entry varies; every other path does not exist.
Files == {<<"t">>, <<"a", "/", "t">>, <<"b", "/", "t">>}

\* access(path, X_OK) succeeds iff xok; stat() fails iff st = "none".
Absent == [xok |-> FALSE, st |-> "none"]

FileStates == {Absent,
               [xok |-> TRUE,  st |-> "reg"],
               [xok |-> FALSE, st |-> "reg"],
               [xok |-> TRUE,  st |-> "dir"]}

\* every answer of access() with every answer of stat(): stat failing, a
\* regular file, a directory, a device node
ProbeStates == [xok : BOOLEAN, st : {"none", "reg", "dir", "dev"}]

\* the names file_is_executable is called on by itself; the last names no entry
ProbeNames == Files \cup {<<"x">>}

\* applet identities the registry can answer with
Applets == {0, 1}

\* the names a dispatch is asked for
FileNames == {"ls", "foo"}

\* the argument vectors a dispatch is given
Argvs == {<<"ls">>, <<"foo", "-x">>}

\* the failure causes execvp can leave in errno
ExecErrnos == {"ENOENT", "EACCES", "ENOEXEC"}

\* the running binary's own image path
bb_busybox_exec_path == "/proc/self/exe"

\* the environment's keys other than PATH
EnvKeys == {"A", "B"}

\* the "KEY=VALUE" strings a caller of BB_EXECVPE can supply
EnvEntries == {[key |-> "PATH", val |-> <<"a">>],
               [key |-> "A", val |-> <<"1">>],
               [key |-> "A", val |-> <<"2">>]}

\* the lists a caller of BB_EXECVPE can supply
EnvLists == UNION {[1..n -> EnvEntries] : n \in 0..MaxEnvLen}

Lookup(f, s) == IF s \in DOMAIN f THEN f[s] ELSE Absent

----------------------------------------------------------------------------
(* Pure functions *)

\* file_is_executable, dropping the S_ISREG test
file_is_executable_noreg(s) == Lookup(fs, s).xok /\ Lookup(fs, s).st # "none"

\* !access(name, X_OK) && !stat(name, &s) && S_ISREG(s.st_mode)
file_is_executable(s) ==
    /\ Lookup(fs, s).xok
    /\ Lookup(fs, s).st # "none"
    /\ Lookup(fs, s).st = "reg"

\* strchrnul stopping at the NUL only
strchrnul_nul(s, from) == Len(s) + 1

\* strchrnul(p, ':'): the first ':' at or after from, else the terminating NUL
strchrnul(s, from) ==
    CHOOSE e \in from..(Len(s) + 1) :
        /\ (e = Len(s) + 1 \/ s[e] = ":")
        /\ \A j \in from..(e - 1) : s[j] # ":"

\* the candidate built without the directory prefix
candidate_bare(s, from, sz, n) == n

\* xasprintf("%.*s/%s", sz, p, name) when sz != 0, xstrdup(name) when sz = 0
candidate(s, from, sz, n) ==
    IF sz # 0 THEN SubSeq(s, from, from + sz - 1) \o <<"/">> \o n
    ELSE n

\* the cursor left at the matched component's end instead of past the delimiter
next_cursor_stay(s, e) == IF e <= Len(s) THEN e ELSE NULL

\* the cursor left at the terminating NUL instead of NULL after the last component
next_cursor_nul(s, e) == IF e <= Len(s) THEN e + 1 ELSE e

\* *end ? end+1 : NULL
next_cursor(s, e) == IF e <= Len(s) THEN e + 1 ELSE NULL

\* getenv("PATH") as a cursor: NULL when unset, else the first character
getenv_PATH == IF PATH = NoStr THEN NULL ELSE 1

----------------------------------------------------------------------------
(* Initial state *)

\* the resolver before its first call, for any search path and filesystem
ResolverInit ==
    /\ PATH \in Paths \cup {NoStr}
    /\ name \in Names
    /\ PATHp = getenv_PATH
    /\ result = NoStr
    /\ caller = "user"
    /\ p = NULL
    /\ end = NULL
    /\ cand = NoStr
    /\ path = NULL
    /\ ret = NoStr
    /\ exists_ret = -1
    /\ heap = EmptyBag
    /\ probed = <<>>
    /\ res = "none"
    /\ entry = NULL
    /\ allocd = EmptyBag
    /\ prevHit = 0
    /\ chain = <<>>
    /\ hitPos = 0
    /\ results = <<>>
    /\ nalloc = 0
    /\ probe_name = NoStr
    /\ probe_ret = -1

\* the build configuration and the registry's no-exec flags, before the first dispatch
DispatcherInit ==
    /\ ENABLE_FEATURE_PREFER_APPLETS \in BOOLEAN
    /\ ENABLE_FEATURE_FORCE_APPLETS \in BOOLEAN
    /\ ENABLE_FEATURE_FORCE_NOEXEC \in BOOLEAN
    /\ is_noexec \in [Applets -> BOOLEAN]
    /\ file = ""
    /\ argv = <<>>
    /\ applet = -1
    /\ errno = "0"
    /\ bx_ret = 0
    /\ execlog = <<>>
    /\ ran = <<>>
    /\ bx_caller = "user"
    /\ environ \in [EnvKeys -> {NoStr, <<"1">>}]
    /\ envp = <<>>
    /\ envi = 1
    /\ xfunc_error_retval = 1
    /\ exit_status = -1

\* the resolver explored under one build configuration
Init ==
    /\ pc = "idle"
    /\ ResolverInit
    /\ fs \in [Files -> FileStates]
    /\ DispatcherInit
    /\ ~ENABLE_FEATURE_PREFER_APPLETS
    /\ ~ENABLE_FEATURE_FORCE_APPLETS
    /\ ~ENABLE_FEATURE_FORCE_NOEXEC
    /\ is_noexec = [a \in Applets |-> FALSE]
    /\ environ = [k \in EnvKeys |-> NoStr]

\* the dispatcher explored with PATH unset and an empty filesystem
ExecInit ==
    /\ pc = "idle"
    /\ ResolverInit
    /\ PATH = NoStr
    /\ fs = [f \in Files |-> Absent]
    /\ DispatcherInit

----------------------------------------------------------------------------
(* The caller of find_executable *)

\* the caller calls find_executable(name, &PATHp)
UserCall ==
    /\ nalloc' = 0
    /\ UNCHANGED results
    /\ pc = "idle"
    /\ pc' = "fe_entry"
    /\ caller' = "user"
    /\ prevHit' = IF res = "found" THEN hitPos ELSE 0
    /\ chain' = IF res = "found" THEN chain ELSE <<>>
    /\ probed' = <<>>
    /\ allocd' = EmptyBag
    /\ UNCHANGED <<PATH, fs, name, PATHp, result, p, end, cand, path, ret,
                   exists_ret, heap, res, entry, hitPos>>
    /\ UNCHANGED <<configVars, execVars, bx_caller, envVars, dieVars, probeVars>>

\* the caller releases the candidate it was given
UserFree ==
    /\ UNCHANGED <<results, nalloc>>
    /\ pc = "idle"
    /\ result # NoStr
    /\ heap' = heap (-) SetToBag({result})
    /\ result' = NoStr
    /\ UNCHANGED <<PATH, fs, name, PATHp, pc, caller, p, end, cand, path, ret,
                   exists_ret, probed, res, entry, allocd, prevHit, chain, hitPos>>
    /\ UNCHANGED <<configVars, execVars, bx_caller, envVars, dieVars, probeVars>>

----------------------------------------------------------------------------
(* find_executable *)

\* the cursor find_executable's PATHp points at
Cursor == IF caller = "user" THEN PATHp ELSE path

\* return v to the caller, storing c through PATHp
Return(v, c) ==
    IF caller = "user"
    THEN /\ result' = v
         /\ PATHp' = c
         /\ pc' = "idle"
         /\ res' = IF v = NoStr THEN "notfound" ELSE "found"
         /\ UNCHANGED <<ret, path>>
    ELSE /\ ret' = v
         /\ path' = c
         /\ pc' = "ee_free"
         /\ UNCHANGED <<result, PATHp, res>>

\* lines 38-41: p = *PATHp; if (!p) return NULL;
fe_entry ==
    /\ UNCHANGED <<results, nalloc>>
    /\ pc = "fe_entry"
    /\ entry' = Cursor
    /\ IF Cursor = NULL
       THEN /\ Return(NoStr, Cursor)
            /\ UNCHANGED p
       ELSE /\ p' = Cursor
            /\ pc' = "fe_build"
            /\ UNCHANGED <<result, PATHp, res, ret, path>>
    /\ UNCHANGED <<PATH, fs, name, caller, end, cand, exists_ret, heap, probed, allocd,
                   prevHit, chain, hitPos>>
    /\ UNCHANGED <<configVars, execVars, bx_caller, envVars, dieVars, probeVars>>

\* lines 43-57: find the component's end and build the candidate
fe_build ==
    /\ nalloc' = nalloc + 1
    /\ UNCHANGED results
    /\ pc = "fe_build"
    /\ end' = strchrnul(PATH, p)
    /\ cand' = candidate(PATH, p, end' - p, name)
    /\ heap' = heap (+) SetToBag({cand'})
    /\ allocd' = allocd (+) SetToBag({cand'})
    /\ pc' = "fe_probe"
    /\ UNCHANGED <<PATH, fs, name, PATHp, result, caller, p, path, ret,
                   exists_ret, probed, res, entry, prevHit, chain, hitPos>>
    /\ UNCHANGED <<configVars, execVars, bx_caller, envVars, dieVars, probeVars>>

\* the probe's result ignored: every candidate is returned
fe_found_always ==
    /\ results' = IF caller = "user" THEN Append(results, <<p, cand>>) ELSE results
    /\ UNCHANGED nalloc
    /\ pc = "fe_probe"
    /\ probed' = Append(probed, <<p, cand>>)
    /\ Return(cand, next_cursor(PATH, end))
    /\ hitPos' = IF caller = "user" THEN p ELSE hitPos
    /\ chain' = IF caller = "user" THEN Append(chain, p) ELSE chain
    /\ UNCHANGED <<PATH, fs, name, caller, p, end, cand, exists_ret, heap, entry, allocd, prevHit>>
    /\ UNCHANGED <<configVars, execVars, bx_caller, envVars, dieVars, probeVars>>

\* lines 58-61: the probe succeeds: store the advanced cursor, return the candidate
fe_found ==
    /\ results' = IF caller = "user" THEN Append(results, <<p, cand>>) ELSE results
    /\ UNCHANGED nalloc
    /\ pc = "fe_probe"
    /\ file_is_executable(cand)
    /\ probed' = Append(probed, <<p, cand>>)
    /\ Return(cand, next_cursor(PATH, end))
    /\ hitPos' = IF caller = "user" THEN p ELSE hitPos
    /\ chain' = IF caller = "user" THEN Append(chain, p) ELSE chain
    /\ UNCHANGED <<PATH, fs, name, caller, p, end, cand, exists_ret, heap, entry, allocd, prevHit>>
    /\ UNCHANGED <<configVars, execVars, bx_caller, envVars, dieVars, probeVars>>

\* the final miss also storing NULL through PATHp
fe_miss_exhaust ==
    /\ UNCHANGED <<results, nalloc>>
    /\ pc = "fe_probe"
    /\ ~file_is_executable(cand)
    /\ probed' = Append(probed, <<p, cand>>)
    /\ heap' = heap (-) SetToBag({cand})
    /\ allocd' = allocd (-) SetToBag({cand})
    /\ IF end = Len(PATH) + 1
       THEN /\ Return(NoStr, NULL)
            /\ UNCHANGED p
       ELSE /\ p' = end + 1
            /\ pc' = "fe_build"
            /\ UNCHANGED <<result, PATHp, res, ret, path>>
    /\ chain' = IF caller = "user" THEN Append(chain, p) ELSE chain
    /\ UNCHANGED <<PATH, fs, name, caller, end, cand, exists_ret, entry, prevHit, hitPos>>
    /\ UNCHANGED <<configVars, execVars, bx_caller, envVars, dieVars, probeVars>>

\* the failed candidate never freed
fe_miss_leak ==
    /\ UNCHANGED <<results, nalloc>>
    /\ pc = "fe_probe"
    /\ ~file_is_executable(cand)
    /\ probed' = Append(probed, <<p, cand>>)
    /\ UNCHANGED <<heap, allocd>>
    /\ IF end = Len(PATH) + 1
       THEN /\ Return(NoStr, Cursor)
            /\ UNCHANGED p
       ELSE /\ p' = end + 1
            /\ pc' = "fe_build"
            /\ UNCHANGED <<result, PATHp, res, ret, path>>
    /\ chain' = IF caller = "user" THEN Append(chain, p) ELSE chain
    /\ UNCHANGED <<PATH, fs, name, caller, end, cand, exists_ret, entry, prevHit, hitPos>>
    /\ UNCHANGED <<configVars, execVars, bx_caller, envVars, dieVars, probeVars>>

\* the scan given up at the first failed probe
fe_miss_stop ==
    /\ UNCHANGED <<results, nalloc>>
    /\ pc = "fe_probe"
    /\ ~file_is_executable(cand)
    /\ probed' = Append(probed, <<p, cand>>)
    /\ heap' = heap (-) SetToBag({cand})
    /\ allocd' = allocd (-) SetToBag({cand})
    /\ Return(NoStr, Cursor)
    /\ UNCHANGED p
    /\ chain' = IF caller = "user" THEN Append(chain, p) ELSE chain
    /\ UNCHANGED <<PATH, fs, name, caller, end, cand, exists_ret, entry, prevHit, hitPos>>
    /\ UNCHANGED <<configVars, execVars, bx_caller, envVars, dieVars, probeVars>>

\* the scan left standing on the delimiter
fe_miss_stuck ==
    /\ UNCHANGED <<results, nalloc>>
    /\ pc = "fe_probe"
    /\ ~file_is_executable(cand)
    /\ probed' = Append(probed, <<p, cand>>)
    /\ heap' = heap (-) SetToBag({cand})
    /\ allocd' = allocd (-) SetToBag({cand})
    /\ IF end = Len(PATH) + 1
       THEN /\ Return(NoStr, Cursor)
            /\ UNCHANGED p
       ELSE /\ p' = end
            /\ pc' = "fe_build"
            /\ UNCHANGED <<result, PATHp, res, ret, path>>
    /\ chain' = IF caller = "user" THEN Append(chain, p) ELSE chain
    /\ UNCHANGED <<PATH, fs, name, caller, end, cand, exists_ret, entry, prevHit, hitPos>>
    /\ UNCHANGED <<configVars, execVars, bx_caller, envVars, dieVars, probeVars>>

\* lines 62-65: the probe fails: free the candidate, stop at the NUL or step past ':'
fe_miss ==
    /\ UNCHANGED <<results, nalloc>>
    /\ pc = "fe_probe"
    /\ ~file_is_executable(cand)
    /\ probed' = Append(probed, <<p, cand>>)
    /\ heap' = heap (-) SetToBag({cand})
    /\ allocd' = allocd (-) SetToBag({cand})
    /\ IF end = Len(PATH) + 1
       THEN /\ Return(NoStr, Cursor)
            /\ UNCHANGED p
       ELSE /\ p' = end + 1
            /\ pc' = "fe_build"
            /\ UNCHANGED <<result, PATHp, res, ret, path>>
    /\ chain' = IF caller = "user" THEN Append(chain, p) ELSE chain
    /\ UNCHANGED <<PATH, fs, name, caller, end, cand, exists_ret, entry, prevHit, hitPos>>
    /\ UNCHANGED <<configVars, execVars, bx_caller, envVars, dieVars, probeVars>>

----------------------------------------------------------------------------
(* executable_exists *)

\* lines 75-76: path = getenv("PATH"); call find_executable(name, &path)
executable_exists ==
    /\ nalloc' = 0
    /\ UNCHANGED results
    /\ pc = "idle"
    /\ path' = getenv_PATH
    /\ caller' = "exists"
    /\ pc' = "fe_entry"
    /\ exists_ret' = -1
    /\ probed' = <<>>
    /\ allocd' = EmptyBag
    /\ UNCHANGED <<PATH, fs, name, PATHp, result, p, end, cand, ret, heap,
                   res, entry, prevHit, chain, hitPos>>
    /\ UNCHANGED <<configVars, execVars, bx_caller, envVars, dieVars, probeVars>>

\* the result returned without being freed
ee_free_leak ==
    /\ UNCHANGED <<results, nalloc>>
    /\ pc = "ee_free"
    /\ exists_ret' = (IF ret # NoStr THEN 1 ELSE 0)
    /\ pc' = "idle"
    /\ UNCHANGED <<PATH, fs, name, PATHp, result, caller, p, end, cand, path, ret, heap,
                   probed, res, entry, allocd, prevHit, chain, hitPos>>
    /\ UNCHANGED <<configVars, execVars, bx_caller, envVars, dieVars, probeVars>>

\* lines 77-78: free(ret); return ret != NULL;
ee_free ==
    /\ UNCHANGED <<results, nalloc>>
    /\ pc = "ee_free"
    /\ heap' = IF ret # NoStr THEN heap (-) SetToBag({ret}) ELSE heap
    /\ allocd' = IF ret # NoStr THEN allocd (-) SetToBag({ret}) ELSE allocd
    /\ exists_ret' = (IF ret # NoStr THEN 1 ELSE 0)
    /\ pc' = "idle"
    /\ UNCHANGED <<PATH, fs, name, PATHp, result, caller, p, end, cand, path, ret,
                   probed, res, entry, prevHit, chain, hitPos>>
    /\ UNCHANGED <<configVars, execVars, bx_caller, envVars, dieVars, probeVars>>

----------------------------------------------------------------------------

Next ==
    \/ UserCall
    \/ UserFree
    \/ fe_entry
    \/ fe_build
    \/ fe_found
    \/ fe_miss
    \/ executable_exists
    \/ ee_free

Spec == Init /\ [][Next]_vars

\* a call that has been entered keeps running: the callee's steps are taken
\* when they can be; the caller may stay idle for ever
FairSpec == Spec /\ WF_vars(fe_entry \/ fe_build \/ fe_found \/ fe_miss)

----------------------------------------------------------------------------
(* BB_EXECVP *)

\* the "no match" failure reached whenever force-applets is set, preference or not
Branch_force_unnested(a) ==
    IF ENABLE_FEATURE_PREFER_APPLETS /\ a >= 0
    THEN IF ENABLE_FEATURE_FORCE_NOEXEC \/ is_noexec[a] THEN "bx_noexec" ELSE "bx_reexec"
    ELSE IF ENABLE_FEATURE_FORCE_APPLETS THEN "bx_enoent" ELSE "bx_fallback"

\* the "no match" failure branch left out
Branch_no_force(a) ==
    IF ~ENABLE_FEATURE_PREFER_APPLETS THEN "bx_fallback"
    ELSE IF a >= 0
         THEN IF ENABLE_FEATURE_FORCE_NOEXEC \/ is_noexec[a] THEN "bx_noexec" ELSE "bx_reexec"
         ELSE "bx_fallback"

\* the global force-no-exec setting ignored
Branch_no_force_noexec(a) ==
    IF ~ENABLE_FEATURE_PREFER_APPLETS THEN "bx_fallback"
    ELSE IF a >= 0
         THEN IF is_noexec[a] THEN "bx_noexec" ELSE "bx_reexec"
         ELSE IF ENABLE_FEATURE_FORCE_APPLETS THEN "bx_enoent" ELSE "bx_fallback"

\* lines 84-99: where the dispatch goes for the registry's answer a
Branch(a) ==
    IF ~ENABLE_FEATURE_PREFER_APPLETS THEN "bx_fallback"
    ELSE IF a >= 0
         THEN IF ENABLE_FEATURE_FORCE_NOEXEC \/ is_noexec[a] THEN "bx_noexec" ELSE "bx_reexec"
         ELSE IF ENABLE_FEATURE_FORCE_APPLETS THEN "bx_enoent" ELSE "bx_fallback"

\* lines 82-87, 92-93: BB_EXECVP(f, av) is entered and asks the registry for f
Dispatch(f, av) ==
    /\ file' = f
    /\ argv' = av
    /\ \E a \in IF ENABLE_FEATURE_PREFER_APPLETS THEN Applets \cup {-1} ELSE {-1} :
          /\ applet' = a
          /\ pc' = Branch(a)
    /\ bx_ret' = 0
    /\ execlog' = <<>>
    /\ ran' = <<>>
    /\ UNCHANGED <<errno, resolverVars, configVars>>

\* where control goes when BB_EXECVP returns: line 117 under BB_EXECVP_or_die, else the caller
bx_return == IF bx_caller = "or_die" THEN "od_retval" ELSE "idle"

\* a caller calls BB_EXECVP(f, av)
BB_EXECVP ==
    /\ pc = "idle"
    /\ bx_caller' = "user"
    /\ \E f \in FileNames, av \in Argvs : Dispatch(f, av)
    /\ UNCHANGED <<envVars, dieVars, probeVars>>

\* run_noexec_applet_and_exit runs the applet in this process and ends the
\* process; it does not return to BB_EXECVP
run_noexec_applet_and_exit == "exited"

\* line 88: run_noexec_applet_and_exit(applet, file, argv)
bx_noexec ==
    /\ UNCHANGED <<bx_caller, envVars, dieVars, probeVars>>
    /\ pc = "bx_noexec"
    /\ ran' = <<applet, file, argv>>
    /\ pc' = run_noexec_applet_and_exit
    /\ UNCHANGED <<file, argv, applet, errno, bx_ret, execlog, resolverVars, configVars>>

\* the re-exec made on the requested file instead of the own image
bx_reexec_file ==
    /\ UNCHANGED <<bx_caller, envVars, dieVars, probeVars>>
    /\ pc = "bx_reexec"
    /\ \E out \in {"ok"} \cup ExecErrnos :
          /\ execlog' = Append(execlog, [path |-> file, argv |-> argv, out |-> out])
          /\ IF out = "ok"
             THEN pc' = "replaced" /\ UNCHANGED errno
             ELSE pc' = "bx_fallback" /\ errno' = out
    /\ UNCHANGED <<file, argv, applet, bx_ret, ran, resolverVars, configVars>>

\* line 90: execvp(bb_busybox_exec_path, argv); when it fails control reaches line 101
bx_reexec ==
    /\ UNCHANGED <<bx_caller, envVars, dieVars, probeVars>>
    /\ pc = "bx_reexec"
    /\ \E out \in {"ok"} \cup ExecErrnos :
          /\ execlog' = Append(execlog, [path |-> bb_busybox_exec_path, argv |-> argv,
                                         out |-> out])
          /\ IF out = "ok"
             THEN pc' = "replaced" /\ UNCHANGED errno
             ELSE pc' = "bx_fallback" /\ errno' = out
    /\ UNCHANGED <<file, argv, applet, bx_ret, ran, resolverVars, configVars>>

\* lines 95-96: errno = ENOENT; return -1;
bx_enoent ==
    /\ UNCHANGED <<bx_caller, envVars, dieVars, probeVars>>
    /\ pc = "bx_enoent"
    /\ errno' = "ENOENT"
    /\ bx_ret' = -1
    /\ pc' = bx_return
    /\ UNCHANGED <<file, argv, applet, execlog, ran, resolverVars, configVars>>

\* the failure of the exec of the file not reaching errno
bx_fallback_stale_errno ==
    /\ UNCHANGED <<bx_caller, envVars, dieVars, probeVars>>
    /\ pc = "bx_fallback"
    /\ \E out \in {"ok"} \cup ExecErrnos :
          /\ execlog' = Append(execlog, [path |-> file, argv |-> argv, out |-> out])
          /\ IF out = "ok"
             THEN pc' = "replaced" /\ UNCHANGED <<errno, bx_ret>>
             ELSE pc' = bx_return /\ UNCHANGED errno /\ bx_ret' = -1
    /\ UNCHANGED <<file, argv, applet, ran, resolverVars, configVars>>

\* line 101: return execvp(file, argv);
bx_fallback ==
    /\ UNCHANGED <<bx_caller, envVars, dieVars, probeVars>>
    /\ pc = "bx_fallback"
    /\ \E out \in {"ok"} \cup ExecErrnos :
          /\ execlog' = Append(execlog, [path |-> file, argv |-> argv, out |-> out])
          /\ IF out = "ok"
             THEN pc' = "replaced" /\ UNCHANGED <<errno, bx_ret>>
             ELSE pc' = bx_return /\ errno' = out /\ bx_ret' = -1
    /\ UNCHANGED <<file, argv, applet, ran, resolverVars, configVars>>

ExecNext ==
    \/ BB_EXECVP
    \/ bx_noexec
    \/ bx_reexec
    \/ bx_enoent
    \/ bx_fallback

ExecSpec == ExecInit /\ [][ExecNext]_vars

----------------------------------------------------------------------------
(* BB_EXECVP_or_die *)

\* bb_perror_msg_and_die: prints the message and ends the process with the
\* status xfunc_error_retval holds; it does not return
bb_perror_msg_and_die(retval) == retval

\* line 115: BB_EXECVP(argv[0], argv)
BB_EXECVP_or_die ==
    /\ pc = "idle"
    /\ bx_caller' = "or_die"
    /\ \E av \in Argvs : Dispatch(av[1], av)
    /\ UNCHANGED <<envVars, dieVars, probeVars>>

\* the two exit codes exchanged
od_die_swapped ==
    /\ pc = "od_retval"
    /\ xfunc_error_retval' = (IF errno = "ENOENT" THEN 126 ELSE 127)
    /\ exit_status' = bb_perror_msg_and_die(xfunc_error_retval')
    /\ pc' = "died"
    /\ UNCHANGED <<resolverVars, configVars, execVars, bx_caller, envVars, probeVars>>

\* lines 117-118: xfunc_error_retval = (errno == ENOENT) ? 127 : 126; die
od_die ==
    /\ pc = "od_retval"
    /\ xfunc_error_retval' = (IF errno = "ENOENT" THEN 127 ELSE 126)
    /\ exit_status' = bb_perror_msg_and_die(xfunc_error_retval')
    /\ pc' = "died"
    /\ UNCHANGED <<resolverVars, configVars, execVars, bx_caller, envVars, probeVars>>

----------------------------------------------------------------------------
(* BB_EXECVPE *)

\* a caller calls BB_EXECVPE(f, av, ep)
BB_EXECVPE ==
    /\ pc = "idle"
    /\ \E f \in FileNames, av \in Argvs, ep \in EnvLists :
          /\ file' = f
          /\ argv' = av
          /\ envp' = ep
    /\ envi' = 1
    /\ applet' = -1
    /\ bx_ret' = 0
    /\ execlog' = <<>>
    /\ ran' = <<>>
    /\ pc' = "xe_clearenv"
    /\ UNCHANGED <<errno, environ, bx_caller, resolverVars, configVars, dieVars, probeVars>>

\* clearenv left out
xe_clearenv_skip ==
    /\ pc = "xe_clearenv"
    /\ pc' = "xe_putenv"
    /\ UNCHANGED <<PATH, environ, envp, envi, resolverRest, configVars, execVars, bx_caller,
                   dieVars, probeVars>>

\* line 106: clearenv();
xe_clearenv ==
    /\ pc = "xe_clearenv"
    /\ PATH' = NoStr
    /\ environ' = [k \in EnvKeys |-> NoStr]
    /\ pc' = "xe_putenv"
    /\ UNCHANGED <<envp, envi, resolverRest, configVars, execVars, bx_caller, dieVars,
                   probeVars>>

\* lines 107-108: while (*envp) putenv(*envp++);
xe_putenv ==
    /\ pc = "xe_putenv"
    /\ envi <= Len(envp)
    /\ IF envp[envi].key = "PATH"
       THEN PATH' = envp[envi].val /\ UNCHANGED environ
       ELSE environ' = [environ EXCEPT ![envp[envi].key] = envp[envi].val] /\ UNCHANGED PATH
    /\ envi' = envi + 1
    /\ UNCHANGED <<pc, envp, resolverRest, configVars, execVars, bx_caller, dieVars, probeVars>>

\* lines 107, 110: *envp is the NULL sentinel; return BB_EXECVP(file, argv);
xe_dispatch ==
    /\ pc = "xe_putenv"
    /\ envi > Len(envp)
    /\ bx_caller' = "execvpe"
    /\ Dispatch(file, argv)
    /\ UNCHANGED <<envVars, dieVars, probeVars>>

----------------------------------------------------------------------------
(* The three entry points of the dispatcher together *)

DispatchNext ==
    \/ BB_EXECVP
    \/ BB_EXECVPE
    \/ xe_clearenv
    \/ xe_putenv
    \/ xe_dispatch
    \/ BB_EXECVP_or_die
    \/ od_die
    \/ bx_noexec
    \/ bx_reexec
    \/ bx_enoent
    \/ bx_fallback

DispatchSpec == ExecInit /\ [][DispatchNext]_vars

----------------------------------------------------------------------------
(* file_is_executable called on its own *)

\* any filesystem, no search path, nothing dispatched
ProbeInit ==
    /\ pc = "idle"
    /\ ResolverInit
    /\ PATH = NoStr
    /\ fs \in [Files -> ProbeStates]
    /\ DispatcherInit
    /\ ~ENABLE_FEATURE_PREFER_APPLETS
    /\ ~ENABLE_FEATURE_FORCE_APPLETS
    /\ ~ENABLE_FEATURE_FORCE_NOEXEC
    /\ is_noexec = [a \in Applets |-> FALSE]
    /\ environ = [k \in EnvKeys |-> NoStr]

\* lines 15-19: int file_is_executable(const char *name), returning to its caller
Probe ==
    /\ pc = "idle"
    /\ \E s \in ProbeNames :
          /\ probe_name' = s
          /\ probe_ret' = IF file_is_executable(s) THEN 1 ELSE 0
    /\ pc' = "idle"
    /\ UNCHANGED <<resolverVars, configVars, execVars, bx_caller, envVars, dieVars>>

ProbeNext == Probe

ProbeSpec == ProbeInit /\ [][ProbeNext]_vars

----------------------------------------------------------------------------
(* What the claims speak of, stated from the search path and the           *)
(* filesystem alone.                                                       *)

\* the path passes the probe: execute access granted and a regular file
Passes(s) == Lookup(fs, s) = [xok |-> TRUE, st |-> "reg"]

\* the delimiters of the search path at or after position q
DelimsFrom(q) == {j \in q..Len(PATH) : PATH[j] = ":"}

\* the positions at which the components at or after position q start
CompStarts(q) == {q} \cup {j + 1 : j \in DelimsFrom(q)}

\* the index (from 0) of the component position q lies in
CompIdx(q) == Cardinality({j \in 1..(q - 1) : PATH[j] = ":"})

\* position q lies in the last component
InLastComp(q) == DelimsFrom(q) = {}

\* the text of the component starting at q
CompText(q) ==
    LET stop == IF InLastComp(q) THEN Len(PATH) + 1
                ELSE CHOOSE j \in DelimsFrom(q) : \A k \in DelimsFrom(q) : j <= k
    IN  [i \in 1..(stop - q) |-> PATH[q + i - 1]]

\* component + "/" + name, or the bare name for an empty component
Expected(q) == IF CompText(q) = <<>> THEN name ELSE CompText(q) \o <<"/">> \o name

\* the caller's last find_executable call has returned
UserDone == pc = "idle" /\ caller = "user" /\ res # "none"

----------------------------------------------------------------------------
(* C1: whenever find_executable returns a candidate, the probe made last   *)
(* in that call was made on exactly the returned string, and that string   *)
(* has execute access and is a regular file.                               *)
C1_ReturnedPassedProbe ==
    /\ (UserDone /\ result # NoStr) =>
          /\ probed # <<>>
          /\ probed[Len(probed)][2] = result
          /\ Passes(result)
    /\ (pc = "ee_free" /\ ret # NoStr) =>
          /\ probed # <<>>
          /\ probed[Len(probed)][2] = ret
          /\ Passes(ret)
    /\ (UserDone \/ pc = "ee_free") =>
          \A i \in 1..(Len(probed) - 1) : ~Passes(probed[i][2])

\* a call returned a candidate after at least one failed probe
C1_Witness == UserDone /\ result # NoStr /\ Len(probed) >= 2

(* C2 as claimed: after a call returned "not found" because the final      *)
(* component failed the probe, the caller's cursor is exhausted (NULL).    *)
C2_ExhaustedAfterMiss ==
    (UserDone /\ res = "notfound" /\ probed # <<>>) => PATHp = NULL

(* C2 as amended: a "not found" return leaves the caller's cursor where    *)
(* the call was entered (not exhausted), so the call after it scans from   *)
(* that same position again; only a call entered with a NULL cursor        *)
(* returns "not found" without probing, and it leaves the cursor NULL.     *)
C2_CursorKeptAfterMiss ==
    /\ (UserDone /\ res = "notfound") =>
          /\ PATHp = entry
          /\ (probed = <<>>) <=> (entry = NULL)
    /\ (caller = "user" /\ probed # <<>>) => probed[1][1] = entry
    /\ (UserDone /\ entry = NULL) =>
          /\ res = "notfound"
          /\ PATHp = NULL
          /\ allocd = EmptyBag

\* a call entered at the start of the path returned "not found" after two or more probes
C2_Witness ==
    /\ UserDone /\ res = "notfound" /\ prevHit = 0
    /\ Len(probed) >= 2 /\ Len(chain) = Len(probed)
    /\ PATHp = 1 /\ hitPos = 0 /\ allocd = EmptyBag /\ exists_ret = -1
    /\ entry = 1

(* C3: a match in component i leaves the cursor at the start of component  *)
(* i+1 (NULL when i is the last); the call made with that cursor probes    *)
(* only components after i, and over a chain of calls each resumed after   *)
(* a match the components probed are strictly increasing, none twice.      *)
C3_ResumeForward ==
    /\ (UserDone /\ res = "found") =>
          /\ InLastComp(hitPos) => PATHp = NULL
          /\ ~InLastComp(hitPos) =>
                /\ PATHp \in CompStarts(hitPos)
                /\ CompIdx(PATHp) = CompIdx(hitPos) + 1
    /\ (caller = "user" /\ prevHit # 0) =>
          \A i \in DOMAIN probed : CompIdx(probed[i][1]) > CompIdx(prevHit)
    /\ (caller = "user" /\ prevHit # 0 /\ UserDone /\ res = "found") =>
          CompIdx(hitPos) > CompIdx(prevHit)
    /\ \A i, j \in DOMAIN chain : i < j => CompIdx(chain[i]) < CompIdx(chain[j])

\* a second match found by a call resumed after a first match
C3_Witness ==
    /\ UserDone /\ res = "found" /\ prevHit # 0
    /\ Len(probed) >= 2 /\ Len(chain) >= 3

(* C4: when the first component whose candidate passes the probe is the    *)
(* last one, the call returns that candidate and leaves the cursor NULL,   *)
(* and the call after it returns "not found" with no probe or allocation.  *)
C4_MatchInLastExhausts ==
    /\ (UserDone /\ entry # NULL
          /\ \E q \in CompStarts(entry) :
                /\ InLastComp(q)
                /\ Passes(Expected(q))
                /\ \A r \in CompStarts(entry) : r < q => ~Passes(Expected(r))) =>
          /\ res = "found"
          /\ InLastComp(hitPos)
          /\ PATHp = NULL
          /\ result # NoStr =>
                /\ result = Expected(hitPos)
                /\ allocd = SetToBag({Expected(hitPos)})
    /\ (caller = "user" /\ prevHit # 0 /\ InLastComp(prevHit)) =>
          /\ pc \in {"fe_entry", "idle"}
          /\ pc = "idle" =>
                /\ res = "notfound" /\ result = NoStr /\ PATHp = NULL
                /\ probed = <<>> /\ allocd = EmptyBag

\* "a:b" with only b/t executable: the call after the match has returned
C4_Witness ==
    /\ PATH = <<"a", ":", "b">>
    /\ ~Passes(<<"a", "/", "t">>) /\ Passes(<<"b", "/", "t">>)
    /\ UserDone /\ prevHit = 3 /\ res = "notfound"

(* C5: a path with k delimiters has exactly k+1 components, empty ones     *)
(* included; each probe is of component + "/" + name, or of the bare name  *)
(* for an empty component; after a match just before a trailing delimiter  *)
(* the cursor is not NULL and the next call probes the bare name.          *)
C5_ComponentsAndCandidates ==
    /\ \A i \in DOMAIN probed :
          /\ probed[i][1] \in CompStarts(1)
          /\ probed[i][2] = Expected(probed[i][1])
          /\ CompIdx(probed[i][1]) = CompIdx(entry) + i - 1
    /\ (UserDone /\ res = "notfound" /\ entry = 1) =>
          Len(probed) = Cardinality(DelimsFrom(1)) + 1
    /\ (UserDone /\ res = "found" /\ result # NoStr) => result = Expected(hitPos)
    /\ (UserDone /\ res = "found" /\ DelimsFrom(hitPos) = {Len(PATH)}) =>
          PATHp = Len(PATH) + 1
    /\ (caller = "user" /\ prevHit # 0 /\ DelimsFrom(prevHit) = {Len(PATH)}
          /\ pc = "idle") =>
          probed = <<<<Len(PATH) + 1, name>>>>

\* "a:": matched in a, and the call after it has probed the bare name
C5_Witness ==
    /\ PATH = <<"a", ":">>
    /\ UserDone /\ prevHit = 1 /\ probed = <<<<3, name>>>>

(* C6 as claimed: with an empty (zero-length) or absent search path both   *)
(* find_executable and executable_exists return "not found".               *)
C6_EmptyOrAbsentNotFound ==
    (PATH = <<>> \/ PATH = NoStr) =>
        /\ UserDone => res = "notfound"
        /\ exists_ret \in {-1, 0}

(* C6 as amended: with an absent search path both return "not found"       *)
(* without a probe or an allocation; the zero-length search path is one    *)
(* empty component, so the bare name is probed and both find it exactly    *)
(* when the bare name passes the probe; either way a "not found" return    *)
(* and every return of executable_exists leave no candidate of theirs live.*)
C6_AbsentNotFoundEmptyIsCwd ==
    /\ PATH = NoStr =>
          /\ res \in {"none", "notfound"}
          /\ exists_ret \in {-1, 0}
          /\ probed = <<>>
          /\ heap = EmptyBag
          /\ pc \in {"idle", "fe_entry", "ee_free"}
    /\ PATH = <<>> =>
          /\ (UserDone /\ entry = 1) =>
                /\ probed = <<<<1, name>>>>
                /\ (res = "found") <=> Passes(name)
          /\ (pc = "idle" /\ exists_ret # -1) => (exists_ret = 1) = Passes(name)
    /\ (PATH = <<>> \/ PATH = NoStr) =>
          /\ (UserDone /\ res = "notfound") => allocd = EmptyBag
          /\ (pc = "idle" /\ caller = "exists") => allocd = EmptyBag

\* the zero-length path with the bare name executable: executable_exists said yes
C6_Witness ==
    /\ PATH = <<>> /\ Passes(name)
    /\ pc = "idle" /\ caller = "exists" /\ exists_ret = 1

(* C7: executable_exists returns true exactly when PATH is set and some    *)
(* component's candidate passes the probe; it runs find_executable once,   *)
(* entered with a fresh cursor at the start of PATH (NULL when unset).     *)
C7_ExistsIffSomeComponentPasses ==
    /\ (pc = "idle" /\ exists_ret # -1) =>
          (exists_ret = 1) = (PATH # NoStr /\ \E q \in CompStarts(1) : Passes(Expected(q)))
    /\ pc = "ee_free" =>
          /\ entry = (IF PATH = NoStr THEN NULL ELSE 1)
          /\ (ret # NoStr) = (PATH # NoStr /\ \E q \in CompStarts(1) : Passes(Expected(q)))
    /\ (caller = "exists" /\ pc \in {"fe_build", "fe_probe", "ee_free"}) => exists_ret = -1

\* executable_exists said yes for a match found after a failed probe
C7_Witness ==
    /\ pc = "idle" /\ caller = "exists" /\ exists_ret = 1 /\ Len(probed) >= 2

----------------------------------------------------------------------------
(* The dispatch in progress or last made, by the branch it belongs to *)

\* the name matched an applet that is to be launched by re-exec
ReexecCase ==
    /\ file # ""
    /\ ENABLE_FEATURE_PREFER_APPLETS /\ ~ENABLE_FEATURE_FORCE_NOEXEC
    /\ applet >= 0 /\ ~is_noexec[applet]

\* applet preference is off, or it is on without force-applets and nothing matched
FallbackCase ==
    /\ file # ""
    /\ \/ ~ENABLE_FEATURE_PREFER_APPLETS
       \/ ENABLE_FEATURE_PREFER_APPLETS /\ ~ENABLE_FEATURE_FORCE_APPLETS /\ applet < 0

\* force-applets mode and nothing matched
ForceMissCase ==
    /\ file # ""
    /\ ENABLE_FEATURE_PREFER_APPLETS /\ ENABLE_FEATURE_FORCE_APPLETS
    /\ applet < 0

(* C8 as claimed: in the re-exec case the own image is exec'ed with the    *)
(* original argv and execvp is never invoked on the requested file name,   *)
(* whether or not the re-exec fails.                                       *)
C8_NamedFileNeverExeced ==
    ReexecCase =>
        /\ pc # "bx_reexec" =>
              /\ execlog # <<>>
              /\ execlog[1].path = bb_busybox_exec_path
              /\ execlog[1].argv = argv
        /\ \A i \in DOMAIN execlog : execlog[i].path # file

(* C8 as amended: in the re-exec case the first exec attempt is on the     *)
(* own image with the original argv, the applet runner is not invoked, and *)
(* the requested file name is exec'ed only as the second attempt, made     *)
(* with the same argv exactly when the re-exec of the own image failed.    *)
C8_ReexecThenFallThrough ==
    ReexecCase =>
        /\ ran = <<>>
        /\ pc \in {"bx_reexec", "bx_fallback", "replaced", "idle"}
        /\ pc = "bx_reexec" => execlog = <<>>
        /\ pc # "bx_reexec" =>
              /\ execlog # <<>>
              /\ execlog[1].path = bb_busybox_exec_path
              /\ execlog[1].argv = argv
        /\ \A i \in DOMAIN execlog :
              /\ execlog[i].argv = argv
              /\ execlog[i].path = file => (i = 2 /\ execlog[1].out # "ok")
        /\ pc = "bx_fallback" => (Len(execlog) = 1 /\ execlog[1].out # "ok")
        /\ pc = "idle" =>
              /\ Len(execlog) = 2
              /\ execlog[2].path = file
              /\ bx_ret = -1

\* the re-exec failed and the dispatch returned after exec'ing the requested file
C8_Witness ==
    /\ ReexecCase /\ pc = "idle" /\ Len(execlog) = 2
    /\ execlog[1].out = "ENOEXEC" /\ execlog[2].out = "ENOENT"

(* C9: with applet preference off, or on without force-applets and no      *)
(* registry match, execvp is invoked exactly once, on the requested file   *)
(* name with the original argv; neither the applet runner nor a re-exec of *)
(* the own image happens; a return hands back that execvp's failure.       *)
C9_FallbackExecsNamedFileOnce ==
    FallbackCase =>
        /\ ran = <<>>
        /\ pc \in {"bx_fallback", "replaced", "idle"}
        /\ pc = "bx_fallback" => execlog = <<>>
        /\ pc \in {"replaced", "idle"} =>
              /\ Len(execlog) = 1
              /\ execlog[1].path = file
              /\ execlog[1].argv = argv
              /\ (execlog[1].out = "ok") <=> (pc = "replaced")
        /\ pc = "idle" =>
              /\ bx_ret = -1
              /\ errno = execlog[1].out
              /\ errno \in ExecErrnos

\* preference off with force-applets on: the one exec of the file failed with EACCES
C9_Witness ==
    /\ FallbackCase /\ pc = "idle" /\ errno = "EACCES"
    /\ ~ENABLE_FEATURE_PREFER_APPLETS /\ ENABLE_FEATURE_FORCE_APPLETS

(* C10: in force-applets mode with no registry match the dispatch sets     *)
(* errno to ENOENT and returns -1, invoking neither execvp nor the applet  *)
(* runner.                                                                 *)
C10_ForceAppletsMissIsENOENT ==
    ForceMissCase =>
        /\ execlog = <<>>
        /\ ran = <<>>
        /\ pc \in {"bx_enoent", "idle"}
        /\ pc = "bx_enoent" => bx_ret = 0
        /\ pc = "idle" => (errno = "ENOENT" /\ bx_ret = -1)

\* a force-applets dispatch with no match has returned
C10_Witness ==
    /\ ForceMissCase /\ pc = "idle" /\ bx_ret = -1 /\ file = "foo"

----------------------------------------------------------------------------
(* Claims about the dispatcher's entry points, under DispatchSpec *)

\* the failure cause the dispatch in progress or last made has produced last
LastCause == IF execlog = <<>> THEN "ENOENT" ELSE execlog[Len(execlog)].out

(* C11: BB_EXECVP_or_die never returns to its caller: when its dispatch    *)
(* on argv[0] returns, the process ends with status 127 if the dispatch    *)
(* left ENOENT in errno and with 126 for any other cause, whatever the     *)
(* three flags and the path the dispatch took.                             *)
C11_OrDieExitStatus ==
    bx_caller = "or_die" =>
        /\ pc \in {"bx_noexec", "bx_reexec", "bx_enoent", "bx_fallback", "od_retval",
                   "died", "replaced", "exited"}
        /\ file = argv[1]
        /\ pc = "od_retval" => (bx_ret = -1 /\ exit_status = -1 /\ errno = LastCause)
        /\ pc = "died" =>
              /\ errno = LastCause
              /\ LastCause = "ENOENT" => exit_status = 127
              /\ LastCause # "ENOENT" => exit_status = 126
        /\ pc # "died" => exit_status = -1

\* a failed re-exec followed by a failed exec of argv[0] ended the process with 126
C11_Witness ==
    /\ bx_caller = "or_die" /\ pc = "died" /\ exit_status = 126
    /\ Len(execlog) = 2 /\ execlog[1].out = "ENOENT" /\ ENABLE_FEATURE_FORCE_APPLETS

\* the environment, PATH included
Env(k) == IF k = "PATH" THEN PATH ELSE environ[k]

\* the binding a list of entries gives key k: its last entry for k, NoStr if it has none
Bound(list, k) ==
    LET at == {i \in DOMAIN list : list[i].key = k}
    IN  IF at = {} THEN NoStr
        ELSE list[CHOOSE i \in at : \A j \in at : j <= i].val

(* C12: BB_EXECVPE empties the environment before adding any entry, adds   *)
(* the supplied entries in order up to the sentinel, and only then enters  *)
(* BB_EXECVP: from that entry on the environment holds exactly the         *)
(* bindings of the supplied list, a later entry for a key overriding an    *)
(* earlier one, and nothing of the previous environment.                   *)
C12_EnvReplacedBeforeDispatch ==
    /\ pc = "xe_clearenv" => (envi = 1 /\ execlog = <<>> /\ ran = <<>>)
    /\ pc = "xe_putenv" =>
          /\ envi \in 1..(Len(envp) + 1)
          /\ \A k \in EnvKeys \cup {"PATH"} : Env(k) = Bound(SubSeq(envp, 1, envi - 1), k)
          /\ execlog = <<>> /\ ran = <<>>
    /\ (bx_caller = "execvpe" /\ pc \notin {"xe_clearenv", "xe_putenv"}) =>
          /\ envi = Len(envp) + 1
          /\ \A k \in EnvKeys \cup {"PATH"} : Env(k) = Bound(envp, k)

\* the dispatcher entered with A=2 overriding A=1
C12_Witness ==
    /\ bx_caller = "execvpe" /\ pc = "bx_fallback"
    /\ envp = <<[key |-> "A", val |-> <<"1">>], [key |-> "A", val |-> <<"2">>]>>
    /\ environ["A"] = <<"2">> /\ environ["B"] = NoStr

\* a dispatch has been entered and its registry answer is the one in applet
InDispatch ==
    \/ pc \in {"bx_noexec", "bx_reexec", "bx_enoent", "bx_fallback",
               "exited", "replaced", "od_retval", "died"}
    \/ bx_ret = -1

(* C13 as claimed: in one BB_EXECVP invocation execvp is invoked at most   *)
(* once, and the error cause the caller sees is that single attempt's.     *)
C13_AtMostOneExec ==
    /\ Len(execlog) <= 1
    /\ (bx_ret = -1 /\ execlog # <<>>) => errno = execlog[1].out

(* C13 as amended: in one BB_EXECVP invocation execvp is invoked at most   *)
(* twice and never twice on the same target: once on the own image and,    *)
(* only when that failed, once on the requested file (otherwise at most    *)
(* once, on the requested file); when control returns the error cause the  *)
(* caller sees is that of the last attempt, the one on the requested       *)
(* file, or ENOENT from the force-applets failure with no attempt at all.  *)
C13_AtMostTwoExecsLastCauseSeen ==
    /\ Len(execlog) <= 2
    /\ \A i \in DOMAIN execlog : i < Len(execlog) => execlog[i].out # "ok"
    /\ Len(execlog) = 2 =>
          /\ execlog[1].path = bb_busybox_exec_path
          /\ execlog[2].path = file
    /\ (Len(execlog) = 1 /\ execlog[1].path = bb_busybox_exec_path) =>
          pc \in {"replaced", "bx_fallback"}
    /\ bx_ret = -1 =>
          /\ errno = LastCause
          /\ execlog # <<>> => execlog[Len(execlog)].path = file
          /\ execlog = <<>> =>
                (ENABLE_FEATURE_PREFER_APPLETS /\ ENABLE_FEATURE_FORCE_APPLETS /\ applet < 0)

\* BB_EXECVPE's dispatch returned ENOENT from the file after EACCES from the own image
C13_Witness ==
    /\ bx_ret = -1 /\ bx_caller = "execvpe" /\ Len(execlog) = 2
    /\ execlog[1].out = "EACCES" /\ errno = "ENOENT"

\* the name matched an applet that is to be run in this process
NoexecCase ==
    /\ InDispatch
    /\ ENABLE_FEATURE_PREFER_APPLETS
    /\ applet >= 0
    /\ (ENABLE_FEATURE_FORCE_NOEXEC \/ is_noexec[applet])

(* C17: with applet preference on, a registry match, and force-no-exec on  *)
(* or the applet flagged no-exec, the dispatch invokes the in-process      *)
(* runner with the applet, the name as invoked and the original argv, and  *)
(* invokes execvp neither on its own image nor on the requested file.      *)
C17_NoexecRunsInProcess ==
    NoexecCase =>
        /\ execlog = <<>>
        /\ bx_ret = 0
        /\ pc \in {"bx_noexec", "exited"}
        /\ pc = "bx_noexec" => ran = <<>>
        /\ pc = "exited" => ran = <<applet, file, argv>>

\* force-no-exec ran an applet that is not flagged no-exec, entered through BB_EXECVP_or_die
C17_Witness ==
    /\ NoexecCase /\ pc = "exited" /\ bx_caller = "or_die"
    /\ ENABLE_FEATURE_FORCE_NOEXEC /\ ~is_noexec[applet] /\ ran[1] = 1

(* C18: in force-applets mode (applet preference and force-applets both    *)
(* on) execvp is never invoked on the requested file name, whatever the    *)
(* registry answers and however the other steps end.                       *)
C18_ForceAppletsNeverExecsFile ==
    (ENABLE_FEATURE_PREFER_APPLETS /\ ENABLE_FEATURE_FORCE_APPLETS) =>
        \A i \in DOMAIN execlog : execlog[i].path # file

----------------------------------------------------------------------------
(* Claims about the resolver's allocations, its results in sequence and    *)
(* its termination, under Spec; about the probe alone, under ProbeSpec     *)

(* C14: candidate allocations are balanced: during a find_executable call  *)
(* at most one candidate is live, each failed one being freed before the   *)
(* next is built; a "not found" return leaves none of the call's           *)
(* candidates live, a match leaves exactly the returned one live, and      *)
(* after executable_exists returns none of its candidates is live.         *)
C14_AllocationsBalanced ==
    /\ BagCardinality(allocd) <= 1
    /\ pc \in {"fe_entry", "fe_build"} => allocd = EmptyBag
    /\ pc = "fe_probe" => allocd = SetToBag({cand}) /\ BagIn(cand, heap)
    /\ nalloc = Len(probed) + (IF pc = "fe_probe" THEN 1 ELSE 0)
    /\ (UserDone /\ res = "notfound") => allocd = EmptyBag
    /\ (UserDone /\ res = "found") =>
          /\ allocd = SetToBag({Expected(hitPos)})
          /\ result # NoStr => result = Expected(hitPos) /\ BagIn(result, heap)
    /\ pc = "ee_free" => allocd = (IF ret = NoStr THEN EmptyBag ELSE SetToBag({ret}))
    /\ (pc = "idle" /\ caller = "exists") => allocd = EmptyBag

\* a match after two freed candidates: three allocations, one live
C14_Witness ==
    /\ UserDone /\ res = "found" /\ result # NoStr
    /\ nalloc = 3 /\ heap = SetToBag({result})

(* C15: file_is_executable answers true exactly when access(X_OK)          *)
(* succeeds, stat succeeds and the file is a regular file; a directory or  *)
(* a device node with execute permission gives false; a failing access or  *)
(* stat gives false and the call returns all the same.                     *)
C15_ProbeIsAccessAndStatAndRegular ==
    probe_ret # -1 =>
        LET f == IF probe_name \in Files THEN fs[probe_name] ELSE Absent IN
        /\ pc = "idle"
        /\ probe_ret \in {0, 1}
        /\ (probe_ret = 1) <=> (f.xok /\ f.st = "reg")
        /\ f.st \in {"dir", "dev"} => probe_ret = 0
        /\ (~f.xok \/ f.st = "none") => probe_ret = 0

\* a device node with execute permission was probed and refused
C15_Witness ==
    /\ probe_ret = 0 /\ probe_name \in Files
    /\ fs[probe_name] = [xok |-> TRUE, st |-> "dev"]

\* the components of the whole path whose candidate passes the probe
PassingStarts == {q \in CompStarts(1) : Passes(Expected(q))}

(* C16: over a fixed filesystem the calls made one after another from a    *)
(* fresh cursor return, in order, exactly the candidates of the components *)
(* that pass the probe, left to right: none skipped, and none dropped as a *)
(* duplicate (a directory listed twice, or several empty components, give  *)
(* one result each).                                                       *)
C16_ResultsAreThePassingComponents ==
    /\ PATH = NoStr => results = <<>>
    /\ PATH # NoStr =>
          /\ \A i \in DOMAIN results :
                /\ results[i][1] \in PassingStarts
                /\ results[i][2] = Expected(results[i][1])
                /\ Cardinality({q \in PassingStarts : q < results[i][1]}) = i - 1
          /\ (UserDone /\ (PATHp = NULL \/ res = "notfound")) =>
                Len(results) = Cardinality(PassingStarts)

\* "a::a" with everything executable: a/t, t, and a/t again
C16_Witness ==
    /\ PATH = <<"a", ":", ":", "a">>
    /\ UserDone /\ PATHp = NULL
    /\ Len(results) = 3 /\ results[1][2] = results[3][2] /\ results[2][2] = name

\* a find_executable call is in progress
InCall == pc \in {"fe_entry", "fe_build", "fe_probe"}

\* while a call runs a step is always possible; it makes at most n probes
\* and n allocations for the n components from its entry cursor on; each
\* failed probe moves the scan position forward past exactly one delimiter;
\* no position it reads lies beyond the terminating NUL of the search path
BoundedScan ==
    /\ InCall => ENABLED (fe_entry \/ fe_build \/ fe_found \/ fe_miss)
    /\ (caller = "user" \/ pc # "idle") =>
          /\ entry = NULL => (probed = <<>> /\ (pc # "fe_entry" => nalloc = 0))
          /\ (entry # NULL /\ pc # "fe_entry") =>
                /\ Len(probed) <= Cardinality(CompStarts(entry))
                /\ nalloc <= Cardinality(CompStarts(entry))
    /\ \A i \in DOMAIN probed :
          i > 1 =>
             /\ probed[i][1] > probed[i - 1][1]
             /\ PATH[probed[i][1] - 1] = ":"
             /\ \A j \in probed[i - 1][1]..(probed[i][1] - 2) : PATH[j] # ":"
    /\ pc \in {"fe_build", "fe_probe"} => p \in 1..(Len(PATH) + 1)
    /\ pc = "fe_probe" =>
          /\ end \in p..(Len(PATH) + 1)
          /\ \A j \in p..(end - 1) : PATH[j] # ":"
          /\ end <= Len(PATH) => PATH[end] = ":"

(* C19: every find_executable call terminates (a call that has been       *)
(* entered comes to its return), making at most n probes and n allocations *)
(* for the n components from its entry cursor on; each failed probe moves  *)
(* the scan position strictly forward past exactly one delimiter, and the  *)
(* scan never reads beyond the terminating NUL of the search path.         *)
C19_TerminatesWithinBound ==
    /\ []BoundedScan
    /\ (pc = "fe_entry") ~> (pc \in {"idle", "ee_free"})

\* a call failed on every one of three components and returned
C19_Witness ==
    /\ UserDone /\ res = "notfound" /\ entry = 1
    /\ Len(probed) = 3 /\ nalloc = 3 /\ Cardinality(CompStarts(1)) = 3

====
